---------------------------- MODULE Spec2Model ----------------------------
(***************************************************************************)
(* Model of the useGameLogic hook (src/src/hooks/useGameLogic.ts) and of   *)
(* the Game component that hosts it (src/unnamed/part_000).                *)
(*                                                                         *)
(* Lengths and velocities are integers in units of 0.1 px (GRAVITY 0.4 is  *)
(* 4, PIPE_SPEED 2.5 is 25, the 400x600 canvas is 4000x6000); the tilt is  *)
(* in units of 0.0001 rad; time is in ms.                                  *)
(*                                                                         *)
(* React state (useState) is read by a handler through the closure of the  *)
(* render that created the handler.  Handlers that are re-created on every *)
(* render (startGame, handleClick, toggleMute, playSound as they call it)  *)
(* see the committed state.  gameLoop is memoised by useCallback on        *)
(* [gameState, score]: the variable gameLoop holds the values the current  *)
(* memoised callback closed over, and every scheduled animation frame      *)
(* carries the closure of the callback that was scheduled.  A handler and  *)
(* the re-render and effects its state updates cause are one step.         *)
(***************************************************************************)
EXTENDS Integers, Sequences, FiniteSets

\* ---- program constants (0.1 px, ms) ----
GRAVITY == 4
JUMP_FORCE == -80
BIRD_SIZE == 300
PIPE_WIDTH == 600
PIPE_GAP == 1700
PIPE_SPEED == 25
CANVAS_WIDTH == 4000
CANVAS_HEIGHT == 6000
BIRD_X == 500
HITBOX_INSET == 50
SPAWN_INTERVAL == 1800
MIN_HEIGHT == 1000
INITIAL_Y == 3000

\* ---- bounds of the exploration ----
\* ms between two animation frames (Date.now() read by consecutive frames)
FrameMs == 20
\* frames explored in the first run of a session
MaxFrames == 280
\* frames explored in every later run
MaxLaterFrames == 100
\* runs (start actions) explored per session
MaxRuns == 2
\* the user clicks, presses keys and toggles mute on every ClickEvery-th
\* frame of a run
ClickEvery == 25
\* the user can leave the tab on every PauseEvery-th frame of a run
PauseEvery == 125
\* ms the page stays hidden when the user leaves the tab
HiddenMs == 2000
\* times the user leaves the tab per run
MaxPauses == 1
\* the start button is pressed on a multiple of StartGridMs
StartGridMs == 10000
\* Date.now() when the component mounts
InitNow == 10000

\* the values of Math.random() explored, in thousandths: [0, 1) is 0..999
Randoms == {0, 435, 999}

\* faulty variant of TopHeightOf: maxHeight forgets the bottom segment's minimum
TopHeightNoBottomMin(r) ==
  (r * ((CANVAS_HEIGHT - PIPE_GAP) - MIN_HEIGHT)) \div 1000 + MIN_HEIGHT

\* generatePipe's topHeight for Math.random() = r / 1000:
\* Math.random() * (maxHeight - minHeight) + minHeight
TopHeightOf(r) ==
  LET maxHeight == CANVAS_HEIGHT - PIPE_GAP - MIN_HEIGHT
  IN (r * (maxHeight - MIN_HEIGHT)) \div 1000 + MIN_HEIGHT

TopHeights == {TopHeightOf(r) : r \in Randoms}

VARIABLES
  gameState,          \* useState 'idle' | 'playing' | 'gameOver'
  score,              \* useState
  highScore,          \* useState
  isMuted,            \* useState of the hook
  hostIsMuted,        \* useState isMuted of the Game component
  birdRef,            \* [y, velocity, rotation]
  pipesRef,           \* sequence of [x, topHeight, passed, id]; id is a ghost
  animationFrameRef,  \* last handle stored; 0 is undefined
  lastPipeSpawnRef,
  gameLoop,           \* what the memoised gameLoop closed over
  rafQueue,           \* pending animation frame callbacks [id, gameState, score, isMuted]
  bgmPlaying,         \* audioRef.current.bgm is playing
  cues,               \* cues whose play() the last step called
  now,                \* the wall clock, Date.now()
  frame,              \* ghost: frames executed in this run
  runs,               \* ghost: start actions so far
  spawned,            \* ghost: obstacles appended in this run
  passedIds,          \* ghost: ids of the obstacles seen with passed = true in this run
  pauses,             \* ghost: times the page was hidden in this run
  lastStep            \* ghost: the handler the last step ran

vars == <<gameState, score, highScore, isMuted, hostIsMuted, birdRef, pipesRef,
          animationFrameRef, lastPipeSpawnRef, gameLoop, rafQueue, bgmPlaying,
          cues, now, frame, runs, spawned, passedIds, pauses, lastStep>>

Max(a, b) == IF a >= b THEN a ELSE b

\* ---- pure helpers of the hook ----

\* the bird a run starts with (useRef initial value and startGame)
InitialBird == [y |-> INITIAL_Y, velocity |-> 0, rotation |-> 0]

\* generatePipe, h being Math.random() * (maxHeight - minHeight) + minHeight;
\* id is a ghost naming the obstacle
generatePipe(h, id) ==
  [x |-> CANVAS_WIDTH, topHeight |-> h, passed |-> FALSE, id |-> id]

\* faulty variant of collidesWithPipe: boxes that only touch do not collide
collidesWithPipeStrict(box, pipeBox) ==
  ~(\/ box.right <= pipeBox.left
    \/ box.left >= pipeBox.right
    \/ box.bottom <= pipeBox.top
    \/ box.top >= pipeBox.bottom)

collidesWithPipe(box, pipeBox) ==
  ~(\/ box.right < pipeBox.left
    \/ box.left > pipeBox.right
    \/ box.bottom < pipeBox.top
    \/ box.top > pipeBox.bottom)

\* the out-of-bounds half of checkCollision's result
OutOfBounds(bird) ==
  bird.y <= 0 \/ bird.y + BIRD_SIZE >= CANVAS_HEIGHT

\* faulty variant of checkCollision: the bottom segment starts at topHeight,
\* the gap is forgotten
checkCollisionNoGap(bird, pipe) ==
  LET birdBox == [top |-> bird.y + HITBOX_INSET,
                  bottom |-> bird.y + BIRD_SIZE - HITBOX_INSET,
                  left |-> BIRD_X + HITBOX_INSET,
                  right |-> BIRD_X + BIRD_SIZE - HITBOX_INSET]
      topPipeBox == [top |-> 0,
                     bottom |-> pipe.topHeight,
                     left |-> pipe.x,
                     right |-> pipe.x + PIPE_WIDTH]
      bottomPipeBox == [top |-> pipe.topHeight,
                        bottom |-> CANVAS_HEIGHT,
                        left |-> pipe.x,
                        right |-> pipe.x + PIPE_WIDTH]
  IN \/ collidesWithPipe(birdBox, topPipeBox)
     \/ collidesWithPipe(birdBox, bottomPipeBox)
     \/ OutOfBounds(bird)

checkCollision(bird, pipe) ==
  LET birdBox == [top |-> bird.y + HITBOX_INSET,
                  bottom |-> bird.y + BIRD_SIZE - HITBOX_INSET,
                  left |-> BIRD_X + HITBOX_INSET,
                  right |-> BIRD_X + BIRD_SIZE - HITBOX_INSET]
      topPipeBox == [top |-> 0,
                     bottom |-> pipe.topHeight,
                     left |-> pipe.x,
                     right |-> pipe.x + PIPE_WIDTH]
      bottomPipeBox == [top |-> pipe.topHeight + PIPE_GAP,
                        bottom |-> CANVAS_HEIGHT,
                        left |-> pipe.x,
                        right |-> pipe.x + PIPE_WIDTH]
  IN \/ collidesWithPipe(birdBox, topPipeBox)
     \/ collidesWithPipe(birdBox, bottomPipeBox)
     \/ OutOfBounds(bird)

\* pipesRef.current.some(pipe => checkCollision(birdRef.current, pipe))
AnyCollision(bird, pipes) ==
  \E i \in 1..Len(pipes) : checkCollision(bird, pipes[i])

\* faulty variant of UpdateBird: no gravity, the velocity stays what the
\* last impulse made it
UpdateBirdNoGravity(bird) ==
  LET v == bird.velocity
      y == bird.y + v
      targetRotation == v * 40
  IN [y |-> y, velocity |-> v,
      rotation |-> bird.rotation + ((targetRotation - bird.rotation) \div 10)]

\* faulty variant of UpdateBird: the position advances by the velocity of
\* the frame before
UpdateBirdPositionFirst(bird) ==
  LET v == bird.velocity + GRAVITY
      y == bird.y + bird.velocity
      targetRotation == v * 40
  IN [y |-> y, velocity |-> v,
      rotation |-> bird.rotation + ((targetRotation - bird.rotation) \div 10)]

\* gameLoop's bird update: gravity, position, then the smoothed tilt
\* (velocity * 0.04 is velocity * 40 in 0.0001 rad; the tenth is rounded down)
UpdateBird(bird) ==
  LET v == bird.velocity + GRAVITY
      y == bird.y + v
      targetRotation == v * 40
  IN [y |-> y, velocity |-> v,
      rotation |-> bird.rotation + ((targetRotation - bird.rotation) \div 10)]

\* now - lastPipeSpawnRef.current > 1800
SpawnDue(t, last) == t - last > SPAWN_INTERVAL

\* faulty variant of KeepPipe: the filter lets an obstacle go two more steps
KeepPipeLate(pipe) == pipe.x > -PIPE_WIDTH - 2 * PIPE_SPEED

\* the filter's predicate: pipe.x > -PIPE_WIDTH
KeepPipe(pipe) == pipe.x > -PIPE_WIDTH

FilterPipes(pipes) == SelectSeq(pipes, KeepPipe)

\* faulty variant of CreditDue: the passed flag is not consulted
CreditDueEveryFrame(passed, x) == x + PIPE_WIDTH < BIRD_X

\* the forEach's scoring test, on the pipe already moved
CreditDue(passed, x) == ~passed /\ x + PIPE_WIDTH < BIRD_X

\* one pipe of the forEach: move, then credit
MovePipe(pipe) ==
  LET x1 == pipe.x - PIPE_SPEED
  IN [pipe EXCEPT !.x = x1, !.passed = pipe.passed \/ CreditDue(pipe.passed, x1)]

ScrollPipes(pipes) == [i \in 1..Len(pipes) |-> MovePipe(pipes[i])]

\* how many times the forEach calls setScore(prev => prev + 1)
Credits(pipes) ==
  Cardinality({i \in 1..Len(pipes) :
                 CreditDue(pipes[i].passed, pipes[i].x - PIPE_SPEED)})

\* faulty variant of NextHighScore: the run's score overwrites the high score
NextHighScoreOverwrite(prev, closureScore) == closureScore

\* setHighScore(prev => Math.max(prev, score)), score being the closure's
NextHighScore(prev, closureScore) == Max(prev, closureScore)

\* playSound(type) of a render in which isMuted was muted: the cues played
playSound(type, muted) == IF ~muted THEN {type} ELSE {}

\* ---- the animation frame scheduler of the host ----

RafIds(q) == {cb.id : cb \in q}

\* requestAnimationFrame returns a handle in use nowhere: not pending and
\* not the one animationFrameRef still holds
FreshId(q, ref) ==
  CHOOSE i \in 1..(Cardinality(q) + 2) :
    /\ i \notin RafIds(q)
    /\ i # ref
    /\ \A j \in 1..(i - 1) : j \in RafIds(q) \/ j = ref

requestAnimationFrame(q, id, loop) ==
  q \cup {[id |-> id, gameState |-> loop.gameState, score |-> loop.score,
           isMuted |-> loop.isMuted]}

\* faulty variant of cancelAnimationFrame: the effect's cleanup cancels nothing
cancelNothing(q, ref) == q

\* if (animationFrameRef.current) cancelAnimationFrame(animationFrameRef.current)
cancelAnimationFrame(q, ref) ==
  IF ref # 0 THEN {cb \in q : cb.id # ref} ELSE q

\* ---- the re-render a handler's state updates cause ----

\* useCallback(..., [gameState, score]): a new gameLoop when a dep changed
DepsChanged(gs, sc) == gs # gameLoop.gameState \/ sc # gameLoop.score

NextGameLoop(gs, sc, mu) ==
  IF DepsChanged(gs, sc)
  THEN [gameState |-> gs, score |-> sc, isMuted |-> mu]
  ELSE gameLoop

\* useEffect(..., [gameState, gameLoop]): cleanup of the old effect, then the
\* new one; q and ref are the queue and the handle the handler left
Commit(gs, sc, mu, q, ref) ==
  LET loop == NextGameLoop(gs, sc, mu)
      q1 == cancelAnimationFrame(q, ref)
      id == FreshId(q1, ref)
  IN /\ gameLoop' = loop
     /\ IF ~DepsChanged(gs, sc)
        THEN rafQueue' = q /\ animationFrameRef' = ref
        ELSE IF gs = "playing"
             THEN /\ rafQueue' = requestAnimationFrame(q1, id, loop)
                  /\ animationFrameRef' = id
             ELSE rafQueue' = q1 /\ animationFrameRef' = ref

\* ---- the state after the first render ----

Init ==
  /\ gameState = "idle"
  /\ score = 0
  /\ highScore = 0
  /\ isMuted = FALSE
  /\ hostIsMuted = FALSE
  /\ birdRef = InitialBird
  /\ pipesRef = <<>>
  /\ animationFrameRef = 0
  /\ lastPipeSpawnRef = 0
  /\ gameLoop = [gameState |-> "idle", score |-> 0, isMuted |-> FALSE]
  /\ rafQueue = {}
  /\ bgmPlaying = FALSE
  /\ cues = {}
  /\ now = InitNow
  /\ frame = 0
  /\ runs = 0
  /\ spawned = 0
  /\ passedIds = {}
  /\ pauses = 0
  /\ lastStep = "mount"

\* ---- the handlers ----

\* Date.now() read by startGame: the next multiple of StartGridMs
StartTime(t) == ((t + StartGridMs - 1) \div StartGridMs) * StartGridMs

\* faulty variant of ResetRefs: the spawn timer is left as the last run set it
ResetRefsKeepTimer(t) ==
  [bird |-> InitialBird, pipes |-> <<>>, lastPipeSpawn |-> lastPipeSpawnRef]

\* the refs startGame assigns, t being Date.now()
ResetRefs(t) == [bird |-> InitialBird, pipes |-> <<>>, lastPipeSpawn |-> t]

\* the start and restart buttons are rendered in idle and in gameOver only
startGame ==
  /\ gameState \in {"idle", "gameOver"}
  /\ runs < MaxRuns
  /\ LET t == StartTime(now)
     IN /\ now' = t
        /\ birdRef' = ResetRefs(t).bird
        /\ pipesRef' = ResetRefs(t).pipes
        /\ lastPipeSpawnRef' = ResetRefs(t).lastPipeSpawn
  /\ score' = 0
  /\ gameState' = "playing"
  /\ bgmPlaying' = (IF ~isMuted THEN TRUE ELSE bgmPlaying)
  /\ Commit("playing", 0, isMuted, rafQueue, animationFrameRef)
  /\ cues' = {}
  /\ frame' = 0
  /\ runs' = runs + 1
  /\ spawned' = 0
  /\ passedIds' = {}
  /\ pauses' = 0
  /\ lastStep' = "startGame"
  /\ UNCHANGED <<highScore, isMuted, hostIsMuted>>

\* the player's clicks and key presses fall on every ClickEvery-th frame
InputSlot == frame % ClickEvery = 0

\* faulty variant of Impulse: the jump force is added to the velocity
ImpulseAdded(bird) == [bird EXCEPT !.velocity = bird.velocity + JUMP_FORCE]

\* birdRef.current.velocity = JUMP_FORCE
Impulse(bird) == [bird EXCEPT !.velocity = JUMP_FORCE]

\* faulty variant of AcceptsInput: the state is not looked at
AcceptsInputAlways(gs) == TRUE

\* handleClick's guard: gameState === 'playing'
AcceptsInput(gs) == gs = "playing"

handleClick ==
  /\ InputSlot
  /\ IF AcceptsInput(gameState)
     THEN /\ birdRef' = Impulse(birdRef)
          /\ cues' = playSound("jump", isMuted)
     ELSE /\ birdRef' = birdRef
          /\ cues' = {}
  /\ lastStep' = "handleClick"
  /\ UNCHANGED <<gameState, score, highScore, isMuted, hostIsMuted, pipesRef,
                 animationFrameRef, lastPipeSpawnRef, gameLoop, rafQueue,
                 bgmPlaying, now, frame, runs, spawned, passedIds, pauses>>

KeyCodes == {"Space", "Enter"}

handleKeyPress ==
  /\ InputSlot
  /\ \E code \in KeyCodes :
       /\ IF code = "Space" /\ AcceptsInput(gameState)
          THEN /\ birdRef' = Impulse(birdRef)
               /\ cues' = playSound("jump", isMuted)
          ELSE /\ birdRef' = birdRef
               /\ cues' = {}
       /\ lastStep' = (IF code = "Space" THEN "handleClick" ELSE "handleKeyPress")
  /\ UNCHANGED <<gameState, score, highScore, isMuted, hostIsMuted, pipesRef,
                 animationFrameRef, lastPipeSpawnRef, gameLoop, rafQueue,
                 bgmPlaying, now, frame, runs, spawned, passedIds, pauses>>

\* setIsMuted(prev => ...): the background track follows the new value
BgmAfterToggle(newMuted, gs) == ~newMuted

toggleMute ==
  /\ InputSlot
  /\ isMuted' = ~isMuted
  /\ bgmPlaying' = BgmAfterToggle(~isMuted, gameState)
  /\ Commit(gameState, score, ~isMuted, rafQueue, animationFrameRef)
  /\ cues' = {}
  /\ lastStep' = "toggleMute"
  /\ UNCHANGED <<gameState, score, highScore, hostIsMuted, birdRef, pipesRef,
                 lastPipeSpawnRef, now, frame, runs, spawned, passedIds,
                 pauses>>

\* the frames explored in the current run
\* faulty variant of StateAfterFrame: a collision returns to the start screen
StateAfterFrameToIdle(hit) == IF hit THEN "idle" ELSE "playing"

\* gameLoop lines 214-219: setGameState('gameOver') on a collision
StateAfterFrame(hit) == IF hit THEN "gameOver" ELSE "playing"

FrameBudget == IF runs <= 1 THEN MaxFrames ELSE MaxLaterFrames

\* one animation frame: the host runs a pending callback, then React
\* re-renders and runs the effects
gameLoopFrame ==
  \E cb \in rafQueue :
    LET q0 == rafQueue \ {cb} IN
    IF cb.gameState # "playing"
    THEN /\ Commit(gameState, score, isMuted, q0, animationFrameRef)
         /\ cues' = {}
         /\ lastStep' = "staleFrame"
         /\ UNCHANGED <<gameState, score, highScore, isMuted, hostIsMuted,
                        birdRef, pipesRef, lastPipeSpawnRef, bgmPlaying, now,
                        frame, runs, spawned, passedIds, pauses>>
    ELSE
      /\ frame < FrameBudget
      /\ LET bird == UpdateBird(birdRef)
             t == now + FrameMs
             due == SpawnDue(t, lastPipeSpawnRef)
         IN \E h \in (IF due THEN TopHeights ELSE {MIN_HEIGHT}) :
              LET pushed == IF due
                            THEN Append(pipesRef, generatePipe(h, spawned + 1))
                            ELSE pipesRef
                  kept == FilterPipes(pushed)
                  pipes == ScrollPipes(kept)
                  sc == score + Credits(kept)
                  scoreCue == IF Credits(kept) > 0
                              THEN playSound("score", cb.isMuted) ELSE {}
                  hit == AnyCollision(bird, pipes)
                  gs == StateAfterFrame(hit)
                  id == FreshId(q0, animationFrameRef)
                  q == IF hit THEN q0 ELSE requestAnimationFrame(q0, id, cb)
                  ref == IF hit THEN animationFrameRef ELSE id
              IN /\ birdRef' = bird
                 /\ now' = t
                 /\ lastPipeSpawnRef' = (IF due THEN t ELSE lastPipeSpawnRef)
                 /\ spawned' = (IF due THEN spawned + 1 ELSE spawned)
                 /\ pipesRef' = pipes
                 /\ score' = sc
                 /\ gameState' = gs
                 /\ highScore' = (IF hit THEN NextHighScore(highScore, cb.score)
                                  ELSE highScore)
                 /\ cues' = scoreCue \cup
                            (IF hit THEN playSound("hit", cb.isMuted) ELSE {})
                 /\ Commit(gs, sc, isMuted, q, ref)
                 /\ passedIds' = passedIds \cup
                      {pipes[i].id : i \in {j \in 1..Len(pipes) : pipes[j].passed}}
                 /\ frame' = frame + 1
                 /\ lastStep' = "gameLoop"
                 /\ UNCHANGED <<isMuted, hostIsMuted, bgmPlaying, runs, pauses>>

\* the user leaves the tab and comes back: the host runs no animation frame
\* while the page is hidden, and Date.now() goes on
pageHidden ==
  /\ gameState = "playing"
  /\ frame % PauseEvery = 0
  /\ pauses < MaxPauses
  /\ now' = now + HiddenMs
  /\ pauses' = pauses + 1
  /\ cues' = {}
  /\ lastStep' = "pageHidden"
  /\ UNCHANGED <<gameState, score, highScore, isMuted, hostIsMuted, birdRef,
                 pipesRef, animationFrameRef, lastPipeSpawnRef, gameLoop,
                 rafQueue, bgmPlaying, frame, runs, spawned, passedIds>>

Next ==
  \/ startGame
  \/ handleClick
  \/ handleKeyPress
  \/ toggleMute
  \/ gameLoopFrame
  \/ pageHidden

Spec == Init /\ [][Next]_vars

\* ---- the claims ----

PipeIds(pipes) == {pipes[i].id : i \in 1..Len(pipes)}

\* the obstacles of pipes whose passed flag is set
PassedIn(pipes) == {pipes[i].id : i \in {j \in 1..Len(pipes) : pipes[j].passed}}

\* a step that ran a frame of gameLoop while playing
FrameStep == frame' = frame + 1

\* C1: on every playing -> gameOver transition the high score becomes the
\* larger of the previous high score and the final score, the final score
\* counting the obstacles credited in the frame that detects the collision.
C1_HighScoreTakesFinalScore ==
  [][(gameState = "playing" /\ gameState' = "gameOver")
       => highScore' = Max(highScore, score')]_vars

\* C2: a frame executed while playing that leaves the bird's top edge at or
\* above 0, or its bottom edge at or beyond the canvas height, ends the run,
\* whatever the obstacle collection holds.
C2_OutOfBoundsEndsRun ==
  (lastStep = "gameLoop" /\ OutOfBounds(birdRef)) => gameState = "gameOver"

\* C3: an obstacle's passed flag is set at most once and never reverts; it is
\* set exactly when the obstacle's right edge is left of the bird's position
\* (x + 60 < 50); the score grows by one per flag set in the step and by
\* nothing else, and equals the number of obstacles credited in the run.
C3_ScoreCountsPassedOnce ==
  /\ [](/\ score = Cardinality(passedIds)
        /\ \A i \in 1..Len(pipesRef) :
             pipesRef[i].passed <=> (pipesRef[i].x + 600 < 500))
  /\ [][/\ \A i \in 1..Len(pipesRef) : \A j \in 1..Len(pipesRef') :
             (pipesRef[i].id = pipesRef'[j].id /\ pipesRef[i].passed)
               => pipesRef'[j].passed
        /\ runs' = runs =>
             score' = score + Cardinality(PassedIn(pipesRef') \ PassedIn(pipesRef))
        /\ score' > score => FrameStep]_vars

C3_Witness ==
  /\ gameState = "playing"
  /\ score = 1
  /\ lastStep = "gameLoop"
  /\ \E i \in 1..Len(pipesRef) : pipesRef[i].passed /\ pipesRef[i].x = -125

\* C4: the high score never decreases, whatever the step.
C4_HighScoreMonotone == [][highScore' >= highScore]_vars

\* a second run ended below the high score the first run set
C4_Witness ==
  /\ runs = 2
  /\ gameState = "gameOver"
  /\ lastStep = "gameLoop"
  /\ highScore = 1
  /\ score = 0

\* C5: out of the playing state no animation frame is pending and no step
\* changes the bird, the obstacles, the score or the spawn timer, until the
\* start action; the start action leaves exactly one pending frame, the one
\* animationFrameRef names, whose callback sees the playing state.
C5_NoFrameOutsidePlaying ==
  /\ [](gameState # "playing" => rafQueue = {})
  /\ [](lastStep = "startGame" =>
          /\ Cardinality(rafQueue) = 1
          /\ \A cb \in rafQueue :
               cb.id = animationFrameRef /\ cb.gameState = "playing")
  /\ [][(gameState # "playing" /\ runs' = runs) =>
          /\ ~FrameStep
          /\ UNCHANGED <<gameState, birdRef, pipesRef, score, lastPipeSpawnRef>>]_vars

\* frames run again after a restart that followed a collision in a frame
\* that had credited an obstacle earlier in the run
C5_Witness ==
  /\ runs = 2
  /\ highScore = 1
  /\ gameState = "playing"
  /\ lastStep = "gameLoop"
  /\ frame = 2

\* C6: the start action, from idle or from gameOver, leaves the bird at 300
\* with velocity 0 and tilt 0, no obstacle, the spawn timer at the current
\* time, the score 0 and the state playing, and does not change the high score.
C6_StartResetsRun ==
  /\ [](lastStep = "startGame" =>
          /\ birdRef = [y |-> 3000, velocity |-> 0, rotation |-> 0]
          /\ pipesRef = <<>>
          /\ lastPipeSpawnRef = now
          /\ score = 0
          /\ gameState = "playing")
  /\ [][runs' # runs =>
          /\ gameState \in {"idle", "gameOver"}
          /\ lastStep' = "startGame"
          /\ highScore' = highScore]_vars

\* a restart from a gameOver that left a high score behind
C6_Witness ==
  /\ lastStep = "startGame"
  /\ runs = 2
  /\ highScore = 1

\* C7: while muted no cue is played, by any handler or frame.
C7_MutedPlaysNoCue == isMuted => cues = {}

\* C8: right after a mute toggle the background track is stopped if the
\* toggle muted, and if it unmuted the track plays only in the playing state.
C8_UnmuteResumesOnlyWhilePlaying ==
  lastStep = "toggleMute" =>
    IF isMuted THEN ~bgmPlaying ELSE (bgmPlaying => gameState = "playing")

\* C9: the indicator the host renders equals the hook's isMuted.
C9_HostShowsMuteState == hostIsMuted = isMuted

\* C10 as claimed: after every frame executed while playing no obstacle of
\* the collection has a position <= -60.
C10_NoObstaclePastLeftEdge ==
  lastStep = "gameLoop" => \A i \in 1..Len(pipesRef) : pipesRef[i].x > -600

\* C10 as amended: an obstacle at a position <= -60 when a frame starts is
\* removed by that frame and no other obstacle is, so that after every frame
\* every obstacle is right of -62.5; the obstacles stay in spawn order.
C10_RemovedAtNextFrame ==
  /\ [](/\ \A i \in 1..Len(pipesRef) : pipesRef[i].x > -625
        /\ \A i \in 1..Len(pipesRef) : \A j \in 1..Len(pipesRef) :
             i < j => pipesRef[i].id < pipesRef[j].id)
  /\ [][FrameStep =>
          \A i \in 1..Len(pipesRef) :
            (pipesRef[i].x <= -600) <=> (pipesRef[i].id \notin PipeIds(pipesRef'))]_vars

\* the first obstacle is gone and later ones remain, in a run still playing
C10_Witness ==
  /\ gameState = "playing"
  /\ lastStep = "gameLoop"
  /\ Len(pipesRef) >= 1
  /\ pipesRef[1].id = 2

\* ---- checkCollision on a grid of birds and obstacles ----

\* the grid: bird positions -10 + 5 k px and obstacle positions -70 + 5 k px
GridYCount == 118
GridXCount == 94
GridYs == {50 * k - 100 : k \in 0..GridYCount}
GridXs == {50 * k - 700 : k \in 0..GridXCount}

\* a run that is playing with one bird and one obstacle of the grid
InitCollision ==
  /\ gameState = "playing"
  /\ score = 0
  /\ highScore = 0
  /\ isMuted = FALSE
  /\ hostIsMuted = FALSE
  /\ \E y \in GridYs : birdRef = [y |-> y, velocity |-> 0, rotation |-> 0]
  /\ \E x \in GridXs : \E h \in TopHeights :
       pipesRef = <<[x |-> x, topHeight |-> h, passed |-> FALSE, id |-> 1]>>
  /\ animationFrameRef = 0
  /\ lastPipeSpawnRef = InitNow
  /\ gameLoop = [gameState |-> "playing", score |-> 0, isMuted |-> FALSE]
  /\ rafQueue = {}
  /\ bgmPlaying = FALSE
  /\ cues = {}
  /\ now = InitNow
  /\ frame = 0
  /\ runs = 1
  /\ spawned = 1
  /\ passedIds = {}
  /\ pauses = 0
  /\ lastStep = "mount"

\* gameLoop's collision test alone: the run ends iff checkCollision is true
collisionCheck ==
  /\ lastStep = "mount"
  /\ gameState' = (IF AnyCollision(birdRef, pipesRef) THEN "gameOver"
                   ELSE "playing")
  /\ lastStep' = "checkCollision"
  /\ UNCHANGED <<score, highScore, isMuted, hostIsMuted, birdRef, pipesRef,
                 animationFrameRef, lastPipeSpawnRef, gameLoop, rafQueue,
                 bgmPlaying, cues, now, frame, runs, spawned, passedIds, pauses>>

NextCollision == collisionCheck

SpecCollision == InitCollision /\ [][NextCollision]_vars

\* closed intervals [a, b] and [c, d] have a point in common
IntervalsMeet(a, b, c, d) == a <= d /\ c <= b

\* C11: checkCollision is true iff the bird's box shrunk by 5 on every side,
\* [55, 75] x [y+5, y+25], meets the top segment [x, x+60] x [0, topHeight]
\* or the bottom segment [x, x+60] x [topHeight+170, 600] on both axes, or
\* y <= 0, or y+30 >= 600; it is false for every box within the gap and
\* within the bounds.
C11_CollisionIffOverlapOrBounds ==
  lastStep = "checkCollision" =>
    LET y == birdRef.y
        x == pipesRef[1].x
        h == pipesRef[1].topHeight
        meetsX == IntervalsMeet(550, 750, x, x + 600)
        meetsTop == meetsX /\ IntervalsMeet(y + 50, y + 250, 0, h)
        meetsBottom == meetsX /\ IntervalsMeet(y + 50, y + 250, h + 1700, 6000)
        outside == y <= 0 \/ y + 300 >= 6000
        inGap == y >= h /\ y + 300 <= h + 1700 /\ y > 0 /\ y + 300 < 6000
    IN /\ (gameState = "gameOver") <=> (meetsTop \/ meetsBottom \/ outside)
       /\ inGap => gameState = "playing"

\* a bird whose shrunk box only touches the top segment's lower edge, under
\* the obstacle: a collision
C11_Witness ==
  /\ lastStep = "checkCollision"
  /\ gameState = "gameOver"
  /\ birdRef.y + 50 = pipesRef[1].topHeight
  /\ pipesRef[1].x = 500

\* C12: with only obstacles of topHeight 200 in the collection (gap 170,
\* canvas 600 high), a frame that leaves the bird's box between y = 205 and
\* y = 365 does not end the run, wherever the obstacles are between spawn
\* and removal.
C12_BirdInGapBandNeverCollides ==
  (/\ lastStep = "gameLoop"
   /\ Len(pipesRef) >= 1
   /\ \A i \in 1..Len(pipesRef) : pipesRef[i].topHeight = 2000
   /\ birdRef.y >= 2050
   /\ birdRef.y + 300 <= 3650)
    => gameState = "playing"

\* the bird is in the band while an obstacle of topHeight 200 is over it
C12_Witness ==
  /\ lastStep = "gameLoop"
  /\ gameState = "playing"
  /\ birdRef.y >= 2050
  /\ birdRef.y + 300 <= 3650
  /\ Len(pipesRef) >= 1
  /\ \A i \in 1..Len(pipesRef) : pipesRef[i].topHeight = 2000
  /\ pipesRef[1].x = 500

\* C13: a frame executed while playing adds the gravity constant 0.4 to the
\* velocity and then the new velocity to the position; from position 300 and
\* velocity 0 one frame gives velocity 0.4 and position 300.4.
C13_GravityThenPosition ==
  /\ []((lastStep = "gameLoop" /\ frame = 1 /\ birdRef.velocity >= 0)
          => (birdRef.velocity = 4 /\ birdRef.y = 3004))
  /\ [][FrameStep =>
          /\ birdRef'.velocity = birdRef.velocity + 4
          /\ birdRef'.y = birdRef.y + birdRef'.velocity]_vars

\* the first frame of a run, no impulse before it
C13_Witness ==
  /\ lastStep = "gameLoop"
  /\ frame = 1
  /\ birdRef.velocity = 4
  /\ birdRef.y = 3004

\* C14: an impulse accepted while playing sets the velocity to exactly -8,
\* whatever it was, and leaves the position, the obstacles, the score and
\* the game state as they were.
C14_ImpulseSetsJumpForce ==
  [][(lastStep' = "handleClick" /\ gameState = "playing") =>
       /\ birdRef'.velocity = -80
       /\ birdRef'.y = birdRef.y
       /\ birdRef'.rotation = birdRef.rotation
       /\ UNCHANGED <<pipesRef, score, gameState>>]_vars

\* an impulse on a bird that was falling, obstacles on the canvas
C14_Witness ==
  /\ lastStep = "handleClick"
  /\ gameState = "playing"
  /\ frame = 125
  /\ birdRef.velocity = -80
  /\ birdRef.y > 3000
  /\ Len(pipesRef) >= 1

\* C15: a click or key press received in idle or gameOver changes neither
\* the bird, the obstacles, the score, the high score nor the game state,
\* and plays no cue.
C15_ImpulseOutsidePlayingIsNoOp ==
  [][(lastStep' \in {"handleClick", "handleKeyPress"} /\ gameState # "playing") =>
       /\ UNCHANGED <<birdRef, pipesRef, score, highScore, gameState>>
       /\ cues' = {}]_vars

\* a click in gameOver, the sound on
C15_Witness ==
  /\ lastStep = "handleClick"
  /\ gameState = "gameOver"
  /\ ~isMuted

GameStates == {"idle", "playing", "gameOver"}

\* C16: the game state starts as idle and is always one of idle, playing,
\* gameOver; it changes only idle->playing and gameOver->playing by the start
\* action and playing->gameOver by a frame that detects a collision; idle is
\* never entered again.
C16_StateMachine ==
  /\ gameState = "idle"
  /\ [](gameState \in GameStates)
  /\ [][gameState' # gameState =>
          \/ /\ gameState \in {"idle", "gameOver"}
             /\ gameState' = "playing"
             /\ lastStep' = "startGame"
          \/ /\ gameState = "playing"
             /\ gameState' = "gameOver"
             /\ lastStep' = "gameLoop"
             /\ AnyCollision(birdRef', pipesRef')]_vars

\* a second run, started from gameOver
C16_Witness ==
  /\ gameState = "playing"
  /\ lastStep = "startGame"
  /\ runs = 2

\* the obstacle with ghost id n among pipes
PipeWithId(pipes, n) ==
  pipes[CHOOSE i \in 1..Len(pipes) : pipes[i].id = n]

\* C17: a frame appends at most one obstacle, and only when more than
\* 1800 ms have passed since the last spawn or the start action; the appended
\* obstacle is unpassed, entered at x = 400 (it has made that frame's one
\* scroll step when the frame ends) and has 100 <= topHeight <= 330, so that
\* the bottom segment 600 - 170 - topHeight is at least 100 too.
C17_SpawnedObstacleWellFormed ==
  [][FrameStep =>
       /\ spawned' \in {spawned, spawned + 1}
       /\ Len(pipesRef') <= Len(pipesRef) + 1
       /\ spawned' = spawned + 1 =>
            /\ now' - lastPipeSpawnRef > 1800
            /\ lastPipeSpawnRef' = now'
            /\ spawned' \in PipeIds(pipesRef')
            /\ spawned' \notin PipeIds(pipesRef)
            /\ LET pipe == PipeWithId(pipesRef', spawned')
               IN /\ pipe.x + PIPE_SPEED = 4000
                  /\ ~pipe.passed
                  /\ pipe.topHeight >= 1000
                  /\ pipe.topHeight <= 3300
                  /\ 6000 - 1700 - pipe.topHeight >= 1000]_vars

\* the frame after a spawn with Math.random() close to 1: the tallest top
\* segment, the obstacle one step in from the right edge
C17_Witness ==
  /\ lastStep = "gameLoop"
  /\ lastPipeSpawnRef = now
  /\ spawned = 2
  /\ spawned \in PipeIds(pipesRef)
  /\ PipeWithId(pipesRef, spawned).topHeight = 3297
  /\ PipeWithId(pipesRef, spawned).x = 3975

\* C18: at most one frame callback is pending at any time, whatever the
\* interleaving of frames, score changes, start actions and mute toggles.
C18_AtMostOnePendingFrame ==
  /\ Cardinality(rafQueue) <= 1
  /\ (gameState = "playing" /\ gameLoop.gameState = "playing")
       => Cardinality(rafQueue) = 1
  /\ \A cb \in rafQueue : cb.id = animationFrameRef

\* right after a scoring frame: the callback the frame rescheduled was
\* cancelled and the one pending callback carries the new score
C18_Witness ==
  /\ lastStep = "gameLoop"
  /\ gameState = "playing"
  /\ score = 1
  /\ Cardinality(rafQueue) = 1
  /\ \A cb \in rafQueue : cb.score = 1 /\ cb.gameState = "playing"

\* ---- runs that are left alone ----

\* the player's last input of a run comes at least this many frames before
\* the frame budget ends: a bird left alone needs at most 77 frames to fall
\* from the ceiling to the floor, and an obstacle is on the canvas from the
\* 91st frame on
QuietFrames == 105

InputAllowed == frame + QuietFrames <= FrameBudget

\* the steps that decide whether a run ends; the Space key is handleClick
\* again and the mute toggle touches neither the bird nor the obstacles
NextLive ==
  \/ startGame
  \/ (InputAllowed /\ handleClick)
  \/ gameLoopFrame
  \/ pageHidden

\* the host runs a pending animation frame callback at the next repaint, and
\* each frame sees a later Date.now()
SpecLive == Init /\ [][NextLive]_vars /\ WF_vars(gameLoopFrame)

\* C19: every run that is left without input ends: when frames keep firing,
\* the clock advances and no impulse comes any more, a playing state leads to
\* gameOver.
C19_RunWithoutInputEnds == (gameState = "playing") ~> (gameState = "gameOver")

\* a run ended by the fall of a bird that had no impulse for 95 frames or more
C19_Witness ==
  /\ gameState = "gameOver"
  /\ lastStep = "gameLoop"
  /\ birdRef.velocity >= 300
  /\ OutOfBounds(birdRef)

=============================================================================
